---- MODULE Spec2Model ----
(***************************************************************************)
(* Car API: the five routes of src/routes/cars.js (list, read, create,     *)
(* update, delete) over the Record Store (prisma.car) and the Image Store  *)
(* (public/images), with multer's upload middleware in front of create and *)
(* update and fs.unlink's callbacks behind update and delete.              *)
(***************************************************************************)
EXTENDS Integers, Sequences, FiniteSets, TLC

(***************************************************************************)
(* Bounds of the model.                                                    *)
(***************************************************************************)
MaxCars == 4       \* ids the Record Store can hand out
MaxFiles == 2      \* distinct filenames multer's filename() can generate
MaxReq == 2        \* requests served in one run, all of which may overlap

(***************************************************************************)
(* JavaScript values of req.params and req.body.  Text is a sequence of    *)
(* one-character strings, so that Number(), parseInt() and parseFloat()    *)
(* are computed from the characters.  A JSON body (express.json) can carry *)
(* numbers; a form body (multer, express.urlencoded) carries text only.    *)
(***************************************************************************)
Undef == [t |-> "undef", s |-> <<>>, n |-> 0]
Str(s) == [t |-> "str", s |-> s, n |-> 0]
Num(n) == [t |-> "num", s |-> <<>>, n |-> n]

\* a number that may be NaN: parseInt's result
NaNInt == [nan |-> TRUE, v |-> 0]
Int_(v) == [nan |-> FALSE, v |-> v]
\* a number m * 10^e (m not divisible by 10, or m = e = 0), or NaN:
\* parseFloat's result
NaNDec == [nan |-> TRUE, m |-> 0, e |-> 0]

RECURSIVE Normalize(_, _)
Normalize(m, e) ==
  IF m = 0 THEN [nan |-> FALSE, m |-> 0, e |-> 0]
  ELSE IF m % 10 = 0 THEN Normalize(m \div 10, e + 1)
  ELSE [nan |-> FALSE, m |-> m, e |-> e]

DigitVal(c) ==
  CASE c = "0" -> 0 [] c = "1" -> 1 [] c = "2" -> 2 [] c = "3" -> 3
    [] c = "4" -> 4 [] c = "5" -> 5 [] c = "6" -> 6 [] c = "7" -> 7
    [] c = "8" -> 8 [] c = "9" -> 9 [] c = "a" -> 10 [] c = "b" -> 11
    [] c = "c" -> 12 [] c = "d" -> 13 [] c = "e" -> 14 [] c = "f" -> 15
    [] OTHER -> 99

DigitChar(d) == <<"0", "1", "2", "3", "4", "5", "6", "7", "8", "9">>[d + 1]

IsWhiteSpace(c) == c = " "

RECURSIVE TrimLeft(_)
TrimLeft(s) ==
  IF s # <<>> /\ IsWhiteSpace(Head(s)) THEN TrimLeft(Tail(s)) ELSE s

RECURSIVE TrimRight(_)
TrimRight(s) ==
  IF s # <<>> /\ IsWhiteSpace(s[Len(s)])
  THEN TrimRight(SubSeq(s, 1, Len(s) - 1)) ELSE s

Drop(s, k) == SubSeq(s, k + 1, Len(s))

\* the number of leading characters of s that are digits of the radix
RECURSIVE DigitCount(_, _)
DigitCount(s, radix) ==
  IF s # <<>> /\ DigitVal(Head(s)) < radix
  THEN 1 + DigitCount(Tail(s), radix) ELSE 0

RECURSIVE DigitsValue(_, _, _)
DigitsValue(s, radix, acc) ==
  IF s = <<>> THEN acc
  ELSE DigitsValue(Tail(s), radix, acc * radix + DigitVal(Head(s)))

HasSign(s) == s # <<>> /\ Head(s) \in {"-", "+"}
StripSign(s) == IF HasSign(s) THEN Tail(s) ELSE s
SignOf(s) == IF s # <<>> /\ Head(s) = "-" THEN -1 ELSE 1

HasHexPrefix(s) == Len(s) >= 2 /\ s[1] = "0" /\ s[2] \in {"x", "X"}

\* String(value) of an integer
RECURSIVE NatToStr(_)
NatToStr(n) ==
  IF n < 10 THEN <<DigitChar(n)>>
  ELSE NatToStr(n \div 10) \o <<DigitChar(n % 10)>>

JsToString(v) ==
  CASE v.t = "str" -> v.s
    [] v.t = "num" -> IF v.n < 0 THEN <<"-">> \o NatToStr(-v.n) ELSE NatToStr(v.n)
    [] OTHER -> <<"u", "n", "d", "e", "f", "i", "n", "e", "d">>

\* parseInt(string) with no radix: leading white space and a sign are
\* skipped, a 0x prefix selects radix 16, the longest prefix of digits is
\* the value, and no digit at all gives NaN
ParseIntStr(s) ==
  LET t == TrimLeft(s)
      u == StripSign(t)
      radix == IF HasHexPrefix(u) THEN 16 ELSE 10
      w == IF HasHexPrefix(u) THEN Drop(u, 2) ELSE u
      k == DigitCount(w, radix)
  IN IF k = 0 THEN NaNInt
     ELSE Int_(SignOf(t) * DigitsValue(SubSeq(w, 1, k), radix, 0))

ParseInt(v) == ParseIntStr(JsToString(v))

\* the pieces of a decimal literal at the head of a text:
\* digits [. digits] [e [sign] digits]; an exponent with no digit is not
\* part of the literal.  digits are those of the integer and the fraction,
\* j the number of those of the fraction, r what follows them.
ScanExponent(digits, j, r3, k) ==
  [ok |-> digits # <<>>,
   mant |-> DigitsValue(digits, 10, 0),
   exp |-> SignOf(r3) * DigitsValue(SubSeq(StripSign(r3), 1, k), 10, 0) - j,
   rest |-> Drop(StripSign(r3), k)]

ScanMantissa(digits, j, r) ==
  IF /\ r # <<>>
     /\ Head(r) \in {"e", "E"}
     /\ DigitCount(StripSign(Tail(r)), 10) > 0
  THEN ScanExponent(digits, j, Tail(r), DigitCount(StripSign(Tail(r)), 10))
  ELSE [ok |-> digits # <<>>,
        mant |-> DigitsValue(digits, 10, 0),
        exp |-> -j,
        rest |-> r]

ScanFraction(int, f, j) == ScanMantissa(int \o SubSeq(f, 1, j), j, Drop(f, j))

ScanInteger(int, r) ==
  IF r # <<>> /\ Head(r) = "."
  THEN ScanFraction(int, Tail(r), DigitCount(Tail(r), 10))
  ELSE ScanMantissa(int, 0, r)

DecScan(s) ==
  ScanInteger(SubSeq(s, 1, DigitCount(s, 10)), Drop(s, DigitCount(s, 10)))

\* parseFloat(string): the longest prefix that is a decimal literal
ParseFloatStr(s) ==
  LET t == TrimLeft(s)
      d == DecScan(StripSign(t))
  IN IF d.ok THEN Normalize(SignOf(t) * d.mant, d.exp) ELSE NaNDec

ParseFloat(v) == ParseFloatStr(JsToString(v))

\* Number(string) is not NaN: the whole trimmed text is empty, a decimal
\* literal or a 0x literal
IsNumericStr(s) ==
  LET t == TrimRight(TrimLeft(s))
      d == DecScan(StripSign(t))
  IN \/ t = <<>>
     \/ d.ok /\ d.rest = <<>>
     \/ /\ HasHexPrefix(t)
        /\ Len(t) > 2
        /\ DigitCount(Drop(t, 2), 16) = Len(t) - 2

\* isNaN(value)
IsNaN(v) ==
  CASE v.t = "str" -> ~IsNumericStr(v.s)
    [] v.t = "num" -> FALSE
    [] OTHER -> TRUE

\* the truthiness that !x, x || y and x ? y : z test
Truthy(v) ==
  CASE v.t = "str" -> v.s # <<>>
    [] v.t = "num" -> v.n # 0
    [] OTHER -> FALSE

(***************************************************************************)
(* The Car entity and the request object.                                  *)
(***************************************************************************)
CarIds == 1..MaxCars
FileNames == 1..MaxFiles
Null == 0          \* null: no req.file, no imageName, findUnique's miss

Car(id, name, brand, model, year, price, description, imageName) ==
  [id |-> id, name |-> name, brand |-> brand, model |-> model, year |-> year,
   price |-> price, description |-> description, imageName |-> imageName]

NoCar == Car(Null, <<>>, <<>>, <<>>, NaNInt, NaNDec, <<>>, Null)

Body(name, brand, model, year, price, description) ==
  [name |-> name, brand |-> brand, model |-> model, year |-> year,
   price |-> price, description |-> description]

EmptyBody == Body(Undef, Undef, Undef, Undef, Undef, Undef)

NoLookup == [done |-> FALSE, nan |-> FALSE, v |-> 0]
Lookup(k) == [done |-> TRUE, nan |-> k.nan, v |-> k.v]

Idle ==
  [op |-> "none", pc |-> "idle", id |-> Undef, body |-> EmptyBody,
   file |-> Null, car |-> NoCar, data |-> NoCar, lookup |-> NoLookup,
   status |-> 0, out |-> NoCar]

VARIABLES
  cars,       \* the Record Store: id -> Car
  nextId,     \* the id the Record Store gives the next record
  files,      \* the Image Store: the names of the files in public/images
  unlinks,    \* the files whose fs.unlink is dispatched and not yet run
  reqs,       \* the requests: slot -> request object and handler position
  dirname     \* whether the build defines __dirname (CommonJS output) or
              \* leaves it undefined (an ES module, as the imports say)

vars == <<cars, nextId, files, unlinks, reqs, dirname>>

Slots == 1..MaxReq

(***************************************************************************)
(* The pieces of the handlers that decide what a request does.             *)
(***************************************************************************)
\* if (isNaN(id)) return res.status(400)
ValidId(id) == ~IsNaN(id)

\* findFirst in findUnique's place: any record when the id has none
FindUnique_AnyRecord(store, k) ==
  IF ~k.nan /\ k.v \in DOMAIN store THEN store[k.v]
  ELSE IF DOMAIN store # {} THEN store[CHOOSE i \in DOMAIN store : TRUE]
  ELSE NoCar

\* prisma.car.findUnique({ where: { id: parseInt(id) } }): the record, or
\* null
FindUnique(store, k) ==
  IF ~k.nan /\ k.v \in DOMAIN store THEN store[k.v] ELSE NoCar

\* if (!name || !brand || !model || !year || !price)
RequiredMissing(b) ==
  \/ ~Truthy(b.name)
  \/ ~Truthy(b.brand)
  \/ ~Truthy(b.model)
  \/ ~Truthy(b.year)
  \/ ~Truthy(b.price)

\* createData with description left without its || ''
CreateData_NoDefault(b, file) ==
  Car(Null, JsToString(b.name), JsToString(b.brand), JsToString(b.model),
      ParseInt(b.year), ParseFloat(b.price), JsToString(b.description), file)

\* the data of prisma.car.create
CreateData(b, file) ==
  Car(Null, JsToString(b.name), JsToString(b.brand), JsToString(b.model),
      ParseInt(b.year),
      ParseFloat(b.price),
      IF Truthy(b.description) THEN JsToString(b.description) ELSE <<>>,
      file)

\* updatedData with name left without its || car.name
UpdatedData_NoFallback(b, file, car) ==
  Car(car.id,
      JsToString(b.name),
      IF Truthy(b.brand) THEN JsToString(b.brand) ELSE car.brand,
      IF Truthy(b.model) THEN JsToString(b.model) ELSE car.model,
      IF Truthy(b.year) THEN ParseInt(b.year) ELSE car.year,
      IF Truthy(b.price) THEN ParseFloat(b.price) ELSE car.price,
      IF Truthy(b.description) THEN JsToString(b.description)
                               ELSE car.description,
      IF file # Null THEN file ELSE car.imageName)

\* updatedData with ?? for ||: only an omitted field keeps the stored value
UpdatedData_Nullish(b, file, car) ==
  Car(car.id,
      IF b.name # Undef THEN JsToString(b.name) ELSE car.name,
      IF b.brand # Undef THEN JsToString(b.brand) ELSE car.brand,
      IF b.model # Undef THEN JsToString(b.model) ELSE car.model,
      IF b.year # Undef THEN ParseInt(b.year) ELSE car.year,
      IF b.price # Undef THEN ParseFloat(b.price) ELSE car.price,
      IF b.description # Undef THEN JsToString(b.description)
                               ELSE car.description,
      IF file # Null THEN file ELSE car.imageName)

\* updatedData: each field of the body, or the stored one where the body's
\* is falsy
UpdatedData(b, file, car) ==
  Car(car.id,
      IF Truthy(b.name) THEN JsToString(b.name) ELSE car.name,
      IF Truthy(b.brand) THEN JsToString(b.brand) ELSE car.brand,
      IF Truthy(b.model) THEN JsToString(b.model) ELSE car.model,
      IF Truthy(b.year) THEN ParseInt(b.year) ELSE car.year,
      IF Truthy(b.price) THEN ParseFloat(b.price) ELSE car.price,
      IF Truthy(b.description) THEN JsToString(b.description)
                               ELSE car.description,
      IF file # Null THEN file ELSE car.imageName)

\* if (req.file && car.imageName): the old image is to be removed
ReplacesImage(file, car) == file # Null /\ car.imageName # Null

\* the store takes no NaN for year (an integer column) or price (a float
\* column): prisma.car.create and prisma.car.update throw on such data
StoreRejects(d) == d.year.nan \/ d.price.nan

\* the request as it is once answered
Respond(q, status, out) ==
  [q EXCEPT !.pc = "done", !.status = status, !.out = out]

\* an exception in the async handler, or a rejected store call: no answer
\* of the handler's own, a generic server error
Fail(q) == Respond(q, 500, NoCar)

(***************************************************************************)
(* A request arrives.  On POST /create and PUT /update/:id multer's        *)
(* upload.single('image') runs before the handler: a request that carries  *)
(* an image reaches the handler once the file is stored under the          *)
(* generated name, any other request reaches it at once.  The name is      *)
(* Date.now() and Math.random(): any name, also one in use.                *)
(***************************************************************************)
IsForm(b) ==
  \A v \in {b.name, b.brand, b.model, b.year, b.price, b.description} :
    v.t # "num"

NewReq(op, id, b, file) ==
  [Idle EXCEPT !.op = op, !.pc = "handler", !.id = id, !.body = b,
               !.file = file]

\* slot r is free for the next request (the slots fill in order)
Admits(r) ==
  /\ reqs[r].pc = "idle"
  /\ \A p \in 1..(r - 1) : reqs[p].pc # "idle"

\* multer stores the image of a multipart request
Upload(r, op, id, b) ==
  /\ Admits(r)
  /\ IsForm(b)
  /\ \E file \in FileNames :
       /\ reqs' = [reqs EXCEPT ![r] = NewReq(op, id, b, file)]
       /\ files' = files \cup {file}
  /\ UNCHANGED <<cars, nextId, unlinks, dirname>>

UploadCreate(r, bodies) == \E b \in bodies : Upload(r, "create", Undef, b)

UploadUpdate(r, ids, bodies) ==
  \E id \in ids, b \in bodies : Upload(r, "update", id, b)

\* the requests the handler of op can start on in slot r: the one whose
\* image multer has stored, or a new one without an image
Starting(r, op, ids, bodies) ==
  IF reqs[r].pc = "handler"
  THEN IF reqs[r].op = op THEN {reqs[r]} ELSE {}
  ELSE IF Admits(r)
  THEN {NewReq(op, id, b, Null) : id \in ids, b \in bodies}
  ELSE {}

(***************************************************************************)
(* The handlers.                                                           *)
(***************************************************************************)
\* GET /all (the array of the response is not kept)
AllHandler(r) ==
  /\ \E q \in Starting(r, "all", {Undef}, {EmptyBody}) :
       reqs' = [reqs EXCEPT ![r] = Respond(q, 200, NoCar)]
  /\ UNCHANGED <<cars, nextId, files, unlinks, dirname>>

\* what the id check and findUnique make of a request: answered 400, failed
\* on parseInt's NaN, answered 404, or holding the record found
Found(q, store) ==
  IF ~ValidId(q.id) THEN Respond(q, 400, NoCar)
  ELSE LET k == ParseInt(q.id)
           car == FindUnique(store, k)
           p == [q EXCEPT !.lookup = Lookup(k)]
       IN IF k.nan THEN Fail(p)
          ELSE IF car = NoCar THEN Respond(p, 404, NoCar)
          ELSE [p EXCEPT !.car = car]

\* GET /read/:id
ReadHandler(r, ids) ==
  /\ \E q \in Starting(r, "read", ids, {EmptyBody}) :
       LET p == Found(q, cars)
       IN reqs' = [reqs EXCEPT ![r] = IF p.pc = "done" THEN p
                                      ELSE Respond(p, 200, p.car)]
  /\ UNCHANGED <<cars, nextId, files, unlinks, dirname>>

\* POST /create
CreateHandler(r, bodies) ==
  /\ \E q \in Starting(r, "create", {Undef}, bodies) :
       LET d == CreateData(q.body, q.file)
           c == [d EXCEPT !.id = nextId]
       IN IF RequiredMissing(q.body)
          THEN /\ reqs' = [reqs EXCEPT ![r] = Respond(q, 400, NoCar)]
               /\ UNCHANGED <<cars, nextId>>
          ELSE IF StoreRejects(d)
          THEN /\ reqs' = [reqs EXCEPT ![r] = Fail([q EXCEPT !.data = d])]
               /\ UNCHANGED <<cars, nextId>>
          ELSE /\ nextId \in CarIds
               /\ cars' = cars @@ (nextId :> c)
               /\ nextId' = nextId + 1
               /\ reqs' = [reqs EXCEPT
                             ![r] = Respond([q EXCEPT !.data = d], 200, c)]
  /\ UNCHANGED <<files, unlinks, dirname>>

\* PUT /update/:id up to the call of prisma.car.update
UpdateHandler(r, ids, bodies) ==
  /\ \E q \in Starting(r, "update", ids, bodies) :
       LET p == Found(q, cars)
           d == UpdatedData(p.body, p.file, p.car)
       IN IF p.pc = "done"
          THEN reqs' = [reqs EXCEPT ![r] = p] /\ UNCHANGED unlinks
          ELSE IF ReplacesImage(p.file, p.car) /\ ~dirname
          THEN reqs' = [reqs EXCEPT ![r] = Fail(p)] /\ UNCHANGED unlinks
          ELSE /\ reqs' = [reqs EXCEPT ![r] = [p EXCEPT !.pc = "store",
                                                        !.data = d]]
               /\ unlinks' = IF ReplacesImage(p.file, p.car)
                             THEN unlinks \cup {p.car.imageName}
                             ELSE unlinks
  /\ UNCHANGED <<cars, nextId, files, dirname>>

\* prisma.car.update of the body merged with the record as stored at the
\* time of the write, in place of the one findUnique returned
UpdateWrite_Remerge(r) ==
  /\ reqs[r].pc = "store" /\ reqs[r].op = "update"
  /\ LET q == reqs[r]
         id == q.lookup.v
     IN IF StoreRejects(q.data) \/ id \notin DOMAIN cars
        THEN reqs' = [reqs EXCEPT ![r] = Fail(q)] /\ UNCHANGED cars
        ELSE /\ cars' = [cars EXCEPT
                           ![id] = UpdatedData(q.body, q.file, cars[id])]
             /\ reqs' = [reqs EXCEPT ![r] = Respond(q, 200, cars'[id])]
  /\ UNCHANGED <<nextId, files, unlinks, dirname>>

\* prisma.car.update runs and the request is answered
UpdateWrite(r) ==
  /\ reqs[r].pc = "store" /\ reqs[r].op = "update"
  /\ LET q == reqs[r]
         id == q.lookup.v
     IN IF StoreRejects(q.data) \/ id \notin DOMAIN cars
        THEN reqs' = [reqs EXCEPT ![r] = Fail(q)] /\ UNCHANGED cars
        ELSE /\ cars' = [cars EXCEPT ![id] = [q.data EXCEPT !.id = id]]
             /\ reqs' = [reqs EXCEPT ![r] = Respond(q, 200, cars'[id])]
  /\ UNCHANGED <<nextId, files, unlinks, dirname>>

\* DELETE /delete/:id up to the call of prisma.car.delete
DeleteHandler(r, ids) ==
  /\ \E q \in Starting(r, "delete", ids, {EmptyBody}) :
       LET p == Found(q, cars)
       IN reqs' = [reqs EXCEPT ![r] = IF p.pc = "done" THEN p
                                      ELSE [p EXCEPT !.pc = "store"]]
  /\ UNCHANGED <<cars, nextId, files, unlinks, dirname>>

\* prisma.car.delete runs, the image's removal is dispatched and the
\* request is answered
DeleteExec(r) ==
  /\ reqs[r].pc = "store" /\ reqs[r].op = "delete"
  /\ LET q == reqs[r]
         id == q.lookup.v
     IN IF id \notin DOMAIN cars
        THEN /\ reqs' = [reqs EXCEPT ![r] = Fail(q)]
             /\ UNCHANGED <<cars, unlinks>>
        ELSE /\ cars' = [i \in DOMAIN cars \ {id} |-> cars[i]]
             /\ IF q.car.imageName # Null /\ ~dirname
                THEN reqs' = [reqs EXCEPT ![r] = Fail(q)] /\ UNCHANGED unlinks
                ELSE /\ reqs' = [reqs EXCEPT ![r] = Respond(q, 200, NoCar)]
                     /\ unlinks' = IF q.car.imageName # Null
                                   THEN unlinks \cup {q.car.imageName}
                                   ELSE unlinks
  /\ UNCHANGED <<nextId, files, dirname>>

\* fs.unlink removes the file and its callback runs without an error
Unlink(f) ==
  /\ f \in unlinks
  /\ f \in files
  /\ unlinks' = unlinks \ {f}
  /\ files' = files \ {f}
  /\ UNCHANGED <<cars, nextId, reqs, dirname>>

\* fs.unlink fails (the file is gone, or cannot be removed): the callback
\* logs the error with console.error and nothing else happens
UnlinkFails(f) ==
  /\ f \in unlinks
  /\ unlinks' = unlinks \ {f}
  /\ UNCHANGED <<cars, nextId, files, reqs, dirname>>

(***************************************************************************)
(* The requests of the runs.                                               *)
(***************************************************************************)
Txt(c) == Str(<<c>>)

\* a valid payload: the spec's example
FullBody ==
  Body(Txt("A"), Txt("B"), Txt("M"), Str(<<"2", "0", "2", "3">>),
       Str(<<"7", "9", "9", "9", "9", ".", "9", "9">>), Undef)

OnlyName == [EmptyBody EXCEPT !.name = Txt("Z")]
OnlyPrice == [EmptyBody EXCEPT !.price = Str(<<"1", "2", ".", "5">>)]

\* :id values and bodies of the runs with overlapping requests
SmallIds == {Txt("1")}
SmallCreateBodies == {FullBody}
SmallUpdateBodies == {OnlyName, OnlyPrice}

\* :id values of the runs with one request
IdParams ==
  {Txt("1"), Txt("2"), Txt("3"), Str(<<"-", "1">>), Str(<<"1", ".", "5">>),
   Str(<<"0", "x", "1">>), Str(<<"1", "e", "1">>), Str(<<"2", " ">>),
   Txt(" "), Str(<<".", "5">>), Txt("x"), Str(<<"1", "a">>)}

\* the values a field of a body is given: absent, empty or zero, a usual
\* value, and for year and price a text that is no number
TextValues == {Undef, Str(<<>>), Txt("Z")}
YearValues ==
  {Undef, Str(<<>>), Txt("0"), Num(0), Str(<<"1", "9", "9", "9">>), Num(1999),
   Str(<<"1", ".", "5">>), Str(<<"a", "b", "c">>)}
PriceValues ==
  {Undef, Str(<<>>), Txt("0"), Num(0), Str(<<"1", "2", ".", "5">>), Num(12),
   Str(<<"1", "e", "3">>), Str(<<"a", "b", "c">>)}

\* the bodies that differ from b in at most one field
OneOff(b) ==
  {b}
  \cup {[b EXCEPT !.name = v] : v \in TextValues}
  \cup {[b EXCEPT !.brand = v] : v \in TextValues}
  \cup {[b EXCEPT !.model = v] : v \in TextValues}
  \cup {[b EXCEPT !.year = v] : v \in YearValues}
  \cup {[b EXCEPT !.price = v] : v \in PriceValues}
  \cup {[b EXCEPT !.description = v] : v \in TextValues}

CreateBodies == OneOff(FullBody) \cup OneOff(EmptyBody)
UpdateBodies == OneOff(FullBody) \cup OneOff(EmptyBody)

\* the records and files a run with one request starts from: what POST
\* /create of FullBody leaves, with and without an image
Stored(id, file) == [CreateData(FullBody, file) EXCEPT !.id = id]
SeedStores ==
  {<<>>,
   1 :> Stored(1, 1),
   2 :> Stored(2, Null),
   (1 :> Stored(1, 1)) @@ (2 :> Stored(2, Null)),
   (1 :> Stored(1, Null)) @@ (2 :> Stored(2, 1))}

ImagesOf(store) ==
  {store[i].imageName : i \in DOMAIN store} \ {Null}

(***************************************************************************)
(* A run starts on a store that earlier requests have filled (or left      *)
(* empty) and serves MaxReq requests, which may overlap.                   *)
(***************************************************************************)
Init ==
  /\ cars \in SeedStores
  /\ nextId = 3
  /\ files = ImagesOf(cars)
  /\ unlinks = {}
  /\ reqs = [r \in Slots |-> Idle]
  /\ dirname \in BOOLEAN

Next ==
  \/ \E r \in Slots :
       \/ UploadCreate(r, SmallCreateBodies)
       \/ UploadUpdate(r, SmallIds, {EmptyBody})
       \/ AllHandler(r)
       \/ ReadHandler(r, SmallIds)
       \/ CreateHandler(r, SmallCreateBodies)
       \/ UpdateHandler(r, SmallIds, SmallUpdateBodies)
       \/ UpdateWrite(r)
       \/ DeleteHandler(r, SmallIds)
       \/ DeleteExec(r)
  \/ \E f \in FileNames : Unlink(f) \/ UnlinkFails(f)

Spec == Init /\ [][Next]_vars

(***************************************************************************)
(* The runs with one request, of any of the bodies and ids above.          *)
(***************************************************************************)
NextReq ==
  \/ UploadCreate(1, CreateBodies)
  \/ UploadUpdate(1, IdParams, UpdateBodies)
  \/ AllHandler(1)
  \/ ReadHandler(1, IdParams)
  \/ CreateHandler(1, CreateBodies)
  \/ UpdateHandler(1, IdParams, UpdateBodies)
  \/ UpdateWrite(1)
  \/ DeleteHandler(1, IdParams)
  \/ DeleteExec(1)
  \/ \E f \in FileNames : Unlink(f) \/ UnlinkFails(f)

SpecReq == Init /\ [][NextReq]_vars

(***************************************************************************)
(* What the claims are stated with.                                        *)
(***************************************************************************)
DecimalDigits == {"0", "1", "2", "3", "4", "5", "6", "7", "8", "9"}

\* a text that is a base-10 integer: an optional minus sign and decimal
\* digits, nothing else
IsBase10Integer(s) ==
  LET d == IF s # <<>> /\ Head(s) = "-" THEN Tail(s) ELSE s
  IN d # <<>> /\ \A i \in 1..Len(d) : d[i] \in DecimalDigits

RECURSIVE Base10Digits(_)
Base10Digits(d) ==
  IF d = <<>> THEN 0
  ELSE 10 * Base10Digits(SubSeq(d, 1, Len(d) - 1)) + DigitVal(d[Len(d)])

Base10Value(s) ==
  IF s # <<>> /\ Head(s) = "-" THEN -Base10Digits(Tail(s))
  ELSE Base10Digits(s)

\* the values JavaScript takes for false among those of a body
FalsyValues == {Undef, Str(<<>>), Num(0)}

\* the years and prices of the bodies that are numbers, and the number each
\* denotes
YearOf ==
  (Txt("0") :> 0) @@ (Str(<<"1", "9", "9", "9">>) :> 1999)
  @@ (Num(1999) :> 1999) @@ (Str(<<"2", "0", "2", "3">>) :> 2023)

PriceOf ==
  (Txt("0") :> [nan |-> FALSE, m |-> 0, e |-> 0])
  @@ (Str(<<"1", "2", ".", "5">>) :> [nan |-> FALSE, m |-> 125, e |-> -1])
  @@ (Num(12) :> [nan |-> FALSE, m |-> 12, e |-> 0])
  @@ (Str(<<"1", "e", "3">>) :> [nan |-> FALSE, m |-> 1, e |-> 3])
  @@ (Str(<<"7", "9", "9", "9", "9", ".", "9", "9">>)
        :> [nan |-> FALSE, m |-> 7999999, e |-> -2])

\* slot r's handler (not multer) takes a step that ends at q's position
HandlerStep(r) ==
  /\ reqs[r].pc \in {"idle", "handler"}
  /\ reqs'[r].pc \in {"store", "done"}

StoreStep(r) == reqs[r].pc = "store" /\ reqs'[r].pc = "done"

ById(q) == q.op \in {"read", "update", "delete"}

(***************************************************************************)
(* C1: a request answered 400 has touched neither store: the Car records   *)
(* and the files of the Image Store are those from before the request.     *)
(* (One request on a store of SeedStores, whose files are the images of    *)
(* its records.)                                                           *)
(***************************************************************************)
C1_RejectedBeforeStoreAccess ==
  \A r \in Slots :
    reqs[r].status = 400 =>
      /\ cars \in SeedStores
      /\ nextId = 3
      /\ files = ImagesOf(cars)
      /\ unlinks = {}

(***************************************************************************)
(* C2: on GET /read/:id, PUT /update/:id and DELETE /delete/:id an id that *)
(* is a base-10 integer is looked up under the integer it denotes, and any *)
(* other id is answered 400 with no lookup.                                *)
(***************************************************************************)
C2_IdIsBase10Integer ==
  \A r \in Slots :
    ById(reqs[r]) /\ reqs[r].pc \in {"store", "done"} =>
      IF IsBase10Integer(reqs[r].id.s)
      THEN /\ reqs[r].status # 400
           /\ reqs[r].lookup =
                [done |-> TRUE, nan |-> FALSE, v |-> Base10Value(reqs[r].id.s)]
      ELSE /\ reqs[r].status = 400
           /\ ~reqs[r].lookup.done

(***************************************************************************)
(* C3: a read, update or delete with an integer id that no record has is   *)
(* answered 404 by the handler's step, and that step changes no record, no *)
(* file and dispatches no removal.                                         *)
(***************************************************************************)
C3_NotFound ==
  [][\A r \in Slots :
       ( /\ HandlerStep(r)
         /\ ById(reqs'[r])
         /\ IsBase10Integer(reqs'[r].id.s)
         /\ Base10Value(reqs'[r].id.s) \notin DOMAIN cars )
       => /\ reqs'[r].pc = "done"
          /\ reqs'[r].status = 404
          /\ UNCHANGED <<cars, nextId, files, unlinks>>]_vars

\* a 404 for the id of a record that an earlier request deleted
C3_Witness ==
  \E r, p \in Slots :
    /\ reqs[p].op = "delete" /\ reqs[p].status = 200
    /\ reqs[r].op \in {"read", "update"} /\ reqs[r].status = 404
    /\ reqs[r].lookup.v = reqs[p].lookup.v
    /\ reqs[r].lookup.v \notin DOMAIN cars

(***************************************************************************)
(* C4: PUT /update/:id on an existing record with only price in the body   *)
(* (a number; a falsy price counts as not provided, C5) and no image goes  *)
(* on to the store's update without touching either store, and the update  *)
(* is answered 200 with the merged record: the record's price becomes the  *)
(* submitted one, and no other field, no other record and no file changes. *)
(* (The update is the only request of the run.)                            *)
(***************************************************************************)
OnlyPriceGiven(q) ==
  /\ q.op = "update"
  /\ q.file = Null
  /\ q.body.price \in DOMAIN PriceOf
  /\ [q.body EXCEPT !.price = Undef] = EmptyBody
  /\ IsBase10Integer(q.id.s)

C4_OnlyPriceUpdated ==
  [][\A r \in Slots :
       LET q == reqs'[r]
           id == Base10Value(q.id.s)
       IN OnlyPriceGiven(q) /\ id \in DOMAIN cars =>
            /\ HandlerStep(r)
                 => /\ q.pc = "store"
                    /\ UNCHANGED <<cars, nextId, files, unlinks>>
            /\ StoreStep(r)
                 => /\ q.status = 200
                    /\ cars' = [cars EXCEPT
                                  ![id] = [@ EXCEPT
                                             !.price = PriceOf[q.body.price]]]
                    /\ q.out = cars'[id]
                    /\ UNCHANGED <<nextId, files, unlinks>>]_vars

\* the price of one of two records updated to 12.5, the rest as stored
C4_Witness ==
  \E r \in Slots :
    /\ OnlyPriceGiven(reqs[r])
    /\ reqs[r].status = 200
    /\ Cardinality(DOMAIN cars) = 2
    /\ reqs[r].out.price = [nan |-> FALSE, m |-> 125, e |-> -1]
    /\ reqs[r].out.name = <<"A">>
    /\ reqs[r].out.year = Int_(2023)
    /\ cars[reqs[r].out.id] = reqs[r].out

(***************************************************************************)
(* C5 as stated: on PUT /update/:id a field that is omitted or falsy in    *)
(* the body keeps its stored value, and so do a year and a price of 0,     *)
(* whether submitted as the text "0" or as the JSON number 0.              *)
(***************************************************************************)
Merged(q) ==
  /\ q.op = "update"
  /\ q.pc \in {"store", "done"}
  /\ q.data # NoCar

TextKept(q) ==
  /\ q.body.name \in FalsyValues => q.data.name = q.car.name
  /\ q.body.brand \in FalsyValues => q.data.brand = q.car.brand
  /\ q.body.model \in FalsyValues => q.data.model = q.car.model
  /\ q.body.description \in FalsyValues
       => q.data.description = q.car.description

\* the record the store holds once the update is answered 200 is the
\* merged one
MergedStored(q) ==
  q.status = 200 =>
    /\ q.lookup.v \in DOMAIN cars
    /\ cars[q.lookup.v] = q.data

C5_ZeroKeepsStored ==
  \A r \in Slots :
    Merged(reqs[r]) =>
      /\ TextKept(reqs[r])
      /\ reqs[r].body.year \in FalsyValues \cup {Txt("0")}
           => reqs[r].data.year = reqs[r].car.year
      /\ reqs[r].body.price \in FalsyValues \cup {Txt("0")}
           => reqs[r].data.price = reqs[r].car.price
      /\ MergedStored(reqs[r])

(***************************************************************************)
(* C5 amended: a field that is omitted or falsy (undefined, the empty      *)
(* text, the JSON number 0) keeps its stored value; the text "0" of a form *)
(* field is truthy, and a year or a price submitted as "0" becomes 0.      *)
(***************************************************************************)
C5_FalsyKeepsStored ==
  \A r \in Slots :
    Merged(reqs[r]) =>
      /\ TextKept(reqs[r])
      /\ reqs[r].body.year \in FalsyValues
           => reqs[r].data.year = reqs[r].car.year
      /\ reqs[r].body.price \in FalsyValues
           => reqs[r].data.price = reqs[r].car.price
      /\ reqs[r].body.year = Txt("0") => reqs[r].data.year = Int_(0)
      /\ reqs[r].body.price = Txt("0")
           => reqs[r].data.price = [nan |-> FALSE, m |-> 0, e |-> 0]
      /\ MergedStored(reqs[r])

\* an update with the JSON number 0 for year answered 200, the stored year
\* still 2023
C5_Witness ==
  \E r \in Slots :
    /\ Merged(reqs[r])
    /\ reqs[r].status = 200
    /\ reqs[r].body.year = Num(0)
    /\ cars[reqs[r].lookup.v].year = Int_(2023)

(***************************************************************************)
(* C8: POST /create with name, brand, model, year and price all given (the *)
(* year an integer, the price a number) is answered 200 with the persisted *)
(* record: a new id, the submitted name, brand, model, year and price, the *)
(* submitted description or the empty text, the uploaded file's name or    *)
(* null; one record is added and no other changes.                         *)
(***************************************************************************)
RequiredGiven(b) ==
  /\ {b.name, b.brand, b.model} \cap FalsyValues = {}
  /\ b.year \in DOMAIN YearOf
  /\ b.price \in DOMAIN PriceOf

C8_CreateEchoes ==
  [][\A r \in Slots :
       LET q == reqs'[r]
           c == q.out
       IN HandlerStep(r) /\ q.op = "create" /\ RequiredGiven(q.body) =>
            /\ q.status = 200
            /\ c.id \in CarIds \ DOMAIN cars
            /\ cars' = cars @@ (c.id :> c)
            /\ c.name = q.body.name.s
            /\ c.brand = q.body.brand.s
            /\ c.model = q.body.model.s
            /\ c.year = Int_(YearOf[q.body.year])
            /\ c.price = PriceOf[q.body.price]
            /\ c.description = IF q.body.description \in FalsyValues THEN <<>>
                               ELSE q.body.description.s
            /\ c.imageName = q.file
            /\ UNCHANGED <<files, unlinks>>]_vars

\* a third record created with an image and no description
C8_Witness ==
  \E r \in Slots :
    /\ reqs[r].op = "create"
    /\ reqs[r].status = 200
    /\ reqs[r].file # Null
    /\ reqs[r].body.description = Undef
    /\ reqs[r].out.description = <<>>
    /\ reqs[r].out.imageName = reqs[r].file
    /\ reqs[r].out.year = Int_(1999)
    /\ Cardinality(DOMAIN cars) = 3
    /\ cars[reqs[r].out.id] = reqs[r].out
(***************************************************************************)
(* C6: DELETE /delete/:id on an existing record with an image removes the  *)
(* record, is answered 200, and has the removal of the record's image file *)
(* dispatched by the time it is answered.                                  *)
(***************************************************************************)
C6_DeleteRemovesImage ==
  [][\A r \in Slots :
       LET q == reqs[r]
       IN ( /\ StoreStep(r)
            /\ q.op = "delete"
            /\ q.lookup.v \in DOMAIN cars
            /\ q.car.imageName # Null )
          => /\ q.lookup.v \notin DOMAIN cars'
             /\ reqs'[r].status = 200
             /\ q.car.imageName \in unlinks']_vars

(***************************************************************************)
(* C7: the cleanup of an image never fails the operation: an update that   *)
(* brings a new image for a record that has one goes on to the store's     *)
(* update and, the record still there, sets imageName to the new file and  *)
(* is answered 200; a delete of a record that has an image, the record     *)
(* still there, removes it and is answered 200.                            *)
(***************************************************************************)
C7_CleanupNeverFails ==
  [][\A r \in Slots :
       LET q == reqs'[r]
           id == q.lookup.v
       IN /\ ( /\ HandlerStep(r)
               /\ q.op = "update"
               /\ q.car # NoCar
               /\ ReplacesImage(q.file, q.car) )
             => q.pc = "store" /\ q.data.imageName = q.file
          /\ ( /\ StoreStep(r)
               /\ q.op = "update"
               /\ ReplacesImage(q.file, q.car)
               /\ id \in DOMAIN cars )
             => q.status = 200 /\ cars'[id].imageName = q.file
          /\ ( /\ StoreStep(r)
               /\ q.op = "delete"
               /\ q.car.imageName # Null
               /\ id \in DOMAIN cars )
             => q.status = 200 /\ id \notin DOMAIN cars']_vars

(***************************************************************************)
(* C9: two updates of the same record, one giving only name, the other     *)
(* only price, that have both found the record before either wrote it and  *)
(* are both answered 200 (no third update or delete in the run) leave the  *)
(* record as the later of the two wrote it, with the stored value of the   *)
(* field the other one changed: the change of one of them is lost.         *)
(***************************************************************************)
Overlapped(r1, r2) ==
  /\ r1 # r2
  /\ reqs[r1].op = "update" /\ reqs[r1].status = 200
  /\ reqs[r2].op = "update" /\ reqs[r2].status = 200
  /\ reqs[r1].body = OnlyName /\ reqs[r1].file = Null
  /\ reqs[r2].body = OnlyPrice /\ reqs[r2].file = Null
  /\ reqs[r1].car = reqs[r2].car
  /\ \A p \in Slots \ {r1, r2} : reqs[p].op \notin {"update", "delete"}

C9_LostUpdate ==
  \A r1, r2 \in Slots :
    Overlapped(r1, r2) =>
      LET id == reqs[r1].lookup.v
          car == reqs[r1].car
      IN /\ id \in DOMAIN cars
         /\ reqs[r1].out = [car EXCEPT !.name = <<"Z">>]
         /\ reqs[r2].out = [car EXCEPT !.price = PriceOf[OnlyPrice.price]]
         /\ cars[id] \in {reqs[r1].out, reqs[r2].out}

\* both answered 200, the record with the new name and the old price
C9_Witness ==
  \E r1, r2 \in Slots :
    /\ Overlapped(r1, r2)
    /\ cars[reqs[r1].lookup.v].name = <<"Z">>
    /\ cars[reqs[r1].lookup.v].price = reqs[r2].car.price
    /\ reqs[r2].car.price # PriceOf[OnlyPrice.price]

====
